---- MODULE Spec2Model ----
(***************************************************************************)
(* A model of log-follow (src/main.py): FollowedLog widgets that tail one  *)
(* log file each (catch-up in `setup`, timer-started `poll_lines` thread   *)
(* workers, LogUpdated messages handled on the render thread) and the      *)
(* LogFollowApp key handler that splits / focuses the panels.              *)
(*                                                                         *)
(* Text is modelled as a sequence of one-character strings; a file is the  *)
(* sequence of its characters and a file offset counts characters from 0   *)
(* (one byte per character: the log files are ASCII).                      *)
(***************************************************************************)
EXTENDS Integers, Sequences, FiniteSets, TLC

\* ------------------------------------------------------------------------
\* Characters and character classes of the record grammar (main.py 13-18)
\* ------------------------------------------------------------------------
NL == "\n"

Digits == {"0", "1", "2", "3", "4", "5", "6", "7", "8", "9"}

Upper == {"A", "B", "C", "D", "E", "F", "G", "H", "I", "J", "K", "L", "M",
          "N", "O", "P", "Q", "R", "S", "T", "U", "V", "W", "X", "Y", "Z"}

Lower == {"a", "b", "c", "d", "e", "f", "g", "h", "i", "j", "k", "l", "m",
          "n", "o", "p", "q", "r", "s", "t", "u", "v", "w", "x", "y", "z"}

AlNum == Digits \cup Upper \cup Lower

\* the literal thread name of thread_patt
NetWorker == <<".", "N", "E", "T", " ", "T", "P", " ", "W", "o", "r", "k", "e", "r">>

\* the characters str.strip("\\n") removes: a backslash and the letter n
StripChars == {"\\", "n"}

Min(S) == CHOOSE x \in S : \A y \in S : x <= y

\* text[from..to] (1-based, inclusive), empty when from > to
Slice(text, from, to) == [i \in 1..(to - from + 1) |-> text[from + i - 1]]

\* does the literal lit occur in text starting at index p
LitAt(text, p, lit) ==
    /\ p + Len(lit) - 1 <= Len(text)
    /\ \A i \in 1..Len(lit) : text[p + i - 1] = lit[i]

\* are the k characters of text starting at index p all in class
ClassAt(text, p, k, class) ==
    /\ p + k - 1 <= Len(text)
    /\ \A i \in p..(p + k - 1) : text[i] \in class

\* first index >= p of text whose character is not in class (Len+1 if none):
\* the end of a greedy  [class]*  started at p
RunEnd(text, p, class) ==
    Min({i \in p..(Len(text) + 1) : i = Len(text) + 1 \/ text[i] \notin class})

\* last index of a '.' in text[from..to]
LastDot(text, from, to) ==
    CHOOSE i \in from..to :
        /\ text[i] = "."
        /\ \A j \in (i + 1)..to : text[j] # "."

\* ([a-zA-Z0-9]+\.)+[a-zA-Z0-9]+ spans exactly text[from..to]: two or more
\* non-empty alphanumeric segments separated by single dots
IsLoggerPath(text, from, to) ==
    /\ from <= to
    /\ text[from] # "."
    /\ text[to] # "."
    /\ \E i \in from..to : text[i] = "."
    /\ \A i \in from..(to - 1) : ~(text[i] = "." /\ text[i + 1] = ".")

\* re.match(pattern, line): the named groups as index ranges of line, or
\* ok = FALSE.  The pattern is matched left to right; every repetition in it
\* is delimited by a character outside its class, so the greedy match is the
\* only candidate.
PatternMatch(line) ==
    LET \* date_patt " " time_patt: 4d-2d-2d 2d:2d:2d,3d
        dateOk  == /\ ClassAt(line, 1, 4, Digits) /\ LitAt(line, 5, <<"-">>)
                   /\ ClassAt(line, 6, 2, Digits) /\ LitAt(line, 8, <<"-">>)
                   /\ ClassAt(line, 9, 2, Digits) /\ LitAt(line, 11, <<" ">>)
        timeOk  == /\ ClassAt(line, 12, 2, Digits) /\ LitAt(line, 14, <<":">>)
                   /\ ClassAt(line, 15, 2, Digits) /\ LitAt(line, 17, <<":">>)
                   /\ ClassAt(line, 18, 2, Digits) /\ LitAt(line, 20, <<",">>)
                   /\ ClassAt(line, 21, 3, Digits) /\ LitAt(line, 24, <<" ", "[">>)
        \* thread_patt: \[(\d+|\.NET TP Worker)\]
        thrNum  == RunEnd(line, 26, Digits)
        thrEnd  == IF thrNum > 26 /\ LitAt(line, thrNum, <<"]">>) THEN thrNum
                   ELSE IF LitAt(line, 26, NetWorker \o <<"]">>)
                        THEN 26 + Len(NetWorker)
                        ELSE 0
        \* level_patt: [A-Z]+
        lvlFrom == thrEnd + 2
        lvlEnd  == RunEnd(line, lvlFrom, Upper)
        \* logging_class_patt
        pathFrom == lvlEnd + 1
        pathEnd  == RunEnd(line, pathFrom, AlNum \cup {"."})
        \* message: .+  (any characters but a newline)
        msgFrom == pathEnd + 3
        msgEnd  == RunEnd(line, msgFrom, {line[i] : i \in 1..Len(line)} \ {NL})
    IN  IF /\ dateOk /\ timeOk
           /\ thrEnd # 0
           /\ LitAt(line, thrEnd + 1, <<" ">>)
           /\ lvlEnd > lvlFrom
           /\ LitAt(line, lvlEnd, <<" ">>)
           /\ IsLoggerPath(line, pathFrom, pathEnd - 1)
           /\ LitAt(line, pathEnd, <<" ", "-", " ">>)
           /\ msgEnd > msgFrom
        THEN [ok |-> TRUE,
              month |-> Slice(line, 6, 7),
              day |-> Slice(line, 9, 10),
              time |-> Slice(line, 12, 19),
              level |-> Slice(line, lvlFrom, lvlEnd - 1),
              logging_class |-> Slice(line, LastDot(line, pathFrom, pathEnd - 1) + 1,
                                      pathEnd - 1),
              message |-> Slice(line, msgFrom, msgEnd - 1)]
        ELSE [ok |-> FALSE]

\* str.strip(chars): drop the leading and the trailing characters in chars
Strip(text, chars) ==
    LET keep  == {i \in 1..Len(text) : text[i] \notin chars}
        first == IF keep = {} THEN 1 ELSE Min(keep)
        last  == IF keep = {} THEN 0 ELSE CHOOSE i \in keep : \A j \in keep : j <= i
    IN  Slice(text, first, last)

\* (variant: the level put before the logger class)
tidy_log_line_level_first(line) ==
    LET m == PatternMatch(line)
    IN  IF ~m.ok
        THEN line
        ELSE Strip(m.day \o <<"/">> \o m.month \o <<" ">> \o m.time \o <<" ">>
                   \o m.level \o <<" ">> \o m.logging_class \o <<" ", "-", " ">>
                   \o m.message,
                   StripChars)

tidy_log_line(line) ==
    LET m == PatternMatch(line)
    IN  IF ~m.ok
        THEN line
        ELSE Strip(m.day \o <<"/">> \o m.month \o <<" ">> \o m.time \o <<" ">>
                   \o m.logging_class \o <<" ">> \o m.level \o <<" ", "-", " ">>
                   \o m.message,
                   StripChars)


\* ------------------------------------------------------------------------
\* Bounds and program constants
\* ------------------------------------------------------------------------
CATCHUP_LINES == 100

\* every source list of main.py (dev_files, prod_files, test_ingest) has 3 entries
NumSources == 3

\* poll_lines workers of one source that may be alive at the same time
MaxWorkers == 2

\* characters a followed file may grow to in the polling specifications
MaxFileLen == 3

\* key events handled in the layout specification
MaxKeys == 2

\* lines initially in the file in the catch-up specification
MaxCatchupLines == 103

Sources == 1..NumSources

Workers == 1..MaxWorkers

\* what the external log writer appends in one write: a fragment without a
\* newline, a bare newline (ending a fragment) or a whole line
Chunks == {<<"a">>, <<NL>>, <<"b", NL>>}

\* the writes that append whole lines only: an empty line or the line b
WholeChunks == {<<NL>>, <<"b", NL>>}

\* key names delivered to on_key: the ten digits and a non-digit key
Keys == Digits \cup {"a"}

VARIABLES
    file,               \* file[s]: the characters of the log file of source s
    setup_pc,           \* setup worker: "scan" (lines 51-54), "done" (after 59)
    scan_pos,           \* f.tell() of the binary handle of the scan
    line_end_positions, \* the list built by the scan
    tail_state,         \* self.tail: "unset" (no attribute), "open", "closed"
    tail_pos,           \* read offset of the self.tail handle
    mounted,            \* widget mounted, its update_timer running
    wpc,                \* wpc[s][w]: poll_lines worker "idle", "check", "read"
    new_lines,          \* new_lines[s][w]: the local list of get_new_lines
    msgs,               \* LogUpdated messages posted and not yet handled
    lines,              \* self.lines
    lines_read,         \* self.lines_read
    log,                \* lines written to the RichLog of the widget
    display,            \* display[s]: the widget's display flag
    start_pos,          \* history: offset the tail handle started at, -1 before
    raw_read,           \* history: what each readline of a poll returned
    returned,           \* history: concatenation of the lists get_new_lines returned
    closed_read,        \* history: a poll called readline on the closed handle
    keys,               \* history: the keys on_key has handled
    width,              \* width[s]: the width of the panel, as of its last resize
    openable,           \* openable[s]: open(self.filename) succeeds
    exiting,            \* the application exits because a worker has failed
    unmount_error,      \* history: on_unmount of s raised AttributeError
    tidy_in,            \* the line handed to tidy_log_line, by its parts
    tidy_out            \* what tidy_log_line returned for it, NoLine before

vars == <<file, setup_pc, scan_pos, line_end_positions, tail_state, tail_pos,
          mounted, wpc, new_lines, msgs, lines, lines_read, log, display,
          start_pos, raw_read, returned, closed_read, keys,
          width, openable, exiting, unmount_error, tidy_in, tidy_out>>

setupVars == <<setup_pc, scan_pos, line_end_positions>>
tailVars == <<tail_state, tail_pos, start_pos>>
workerVars == <<wpc, new_lines>>
bufferVars == <<lines, lines_read, log>>
readHistory == <<raw_read, returned, closed_read>>
layoutVars == <<display, keys>>
appVars == <<width, openable, exiting>>
tidyVars == <<tidy_in, tidy_out>>
extraVars == <<appVars, tidyVars, unmount_error>>

\* ------------------------------------------------------------------------
\* Files
\* ------------------------------------------------------------------------
\* file.readline() at offset pos of content: the characters up to and
\* including the next newline, or up to the end of the file when there is
\* none; empty at the end of the file
RECURSIVE LineEnd(_, _)
LineEnd(content, i) ==
    IF i >= Len(content) \/ content[i] = NL THEN i ELSE LineEnd(content, i + 1)

ReadLine(content, pos) ==
    IF pos >= Len(content)
    THEN <<>>
    ELSE Slice(content, pos + 1, LineEnd(content, pos + 1))

\* list[k] of Python for a negative index k
NegIndex(list, k) == list[Len(list) + k + 1]

\* the log writer (outside the program) appends a chunk to the file of s
Write(s, chunk) ==
    /\ Len(file[s]) + Len(chunk) <= MaxFileLen
    /\ file' = [file EXCEPT ![s] = @ \o chunk]
    /\ UNCHANGED <<setupVars, tailVars, mounted, workerVars, msgs, bufferVars,
                   readHistory, layoutVars, extraVars>>

\* ------------------------------------------------------------------------
\* FollowedLog.setup (thread worker started by on_mount)
\* ------------------------------------------------------------------------
\* one iteration of  for line in f: line_end_positions.append(f.tell())
setup_scan(s) ==
    /\ setup_pc[s] = "scan"
    /\ openable[s]
    /\ scan_pos[s] < Len(file[s])
    /\ LET line == ReadLine(file[s], scan_pos[s])
       IN  /\ scan_pos' = [scan_pos EXCEPT ![s] = @ + Len(line)]
           /\ line_end_positions' =
                  [line_end_positions EXCEPT ![s] = Append(@, scan_pos[s] + Len(line))]
    /\ UNCHANGED <<file, setup_pc, tailVars, mounted, workerVars, msgs, bufferVars,
                   readHistory, layoutVars, extraVars>>

\* (variant: the index taken one line too late)
seek_target_late(positions) ==
    IF Len(positions) > CATCHUP_LINES
    THEN NegIndex(positions, -CATCHUP_LINES)
    ELSE 0

\* the offset setup seeks the tail handle to
seek_target(positions) ==
    IF Len(positions) > CATCHUP_LINES
    THEN NegIndex(positions, -CATCHUP_LINES - 1)
    ELSE 0

\* the scan reaches the end of the file; the file is opened again, positioned
\* and published as self.tail
setup_open(s) ==
    /\ setup_pc[s] = "scan"
    /\ openable[s]
    /\ scan_pos[s] >= Len(file[s])
    /\ setup_pc' = [setup_pc EXCEPT ![s] = "done"]
    /\ tail_state' = [tail_state EXCEPT ![s] = "open"]
    /\ tail_pos' = [tail_pos EXCEPT ![s] = seek_target(line_end_positions[s])]
    /\ start_pos' = [start_pos EXCEPT ![s] = seek_target(line_end_positions[s])]
    /\ UNCHANGED <<file, scan_pos, line_end_positions, mounted, workerVars, msgs,
                   bufferVars, readHistory, layoutVars, extraVars>>

\* open(self.filename) raises: the exception ends the setup worker, and a
\* worker started by @work without exit_on_error=False takes the
\* application down with it
setup_fail(s) ==
    /\ setup_pc[s] = "scan"
    /\ ~openable[s]
    /\ setup_pc' = [setup_pc EXCEPT ![s] = "failed"]
    /\ exiting' = TRUE
    /\ UNCHANGED <<file, scan_pos, line_end_positions, tailVars, mounted, workerVars,
                   msgs, bufferVars, readHistory, layoutVars, width, openable,
                   tidyVars, unmount_error>>

\* ------------------------------------------------------------------------
\* FollowedLog.poll_lines (a new thread worker on every timer tick)
\* ------------------------------------------------------------------------
\* the timer tick: poll_lines is called and starts a worker
Tick(s) ==
    /\ mounted[s]
    /\ \E w \in Workers :
        /\ wpc[s][w] = "idle"
        /\ \A v \in Workers : v < w => wpc[s][v] # "idle"
        /\ wpc' = [wpc EXCEPT ![s][w] = "check"]
    /\ UNCHANGED <<file, setupVars, tailVars, mounted, new_lines, msgs, bufferVars,
                   readHistory, layoutVars, extraVars>>

\* (variant: the check left out)
tail_ready_always(state) == TRUE

\* hasattr(self, "tail") and self.tail: a file object is truthy, open or closed
tail_ready(state) == state # "unset"

\* (variant: the handle put back to the catch-up position before each poll)
poll_check_rewind(s, w) ==
    /\ wpc[s][w] = "check"
    /\ IF tail_ready(tail_state[s])
       THEN /\ wpc' = [wpc EXCEPT ![s][w] = "read"]
            /\ new_lines' = [new_lines EXCEPT ![s][w] = <<>>]
            /\ tail_pos' = [tail_pos EXCEPT ![s] = start_pos[s]]
       ELSE /\ wpc' = [wpc EXCEPT ![s][w] = "idle"]
            /\ UNCHANGED <<new_lines, tail_pos>>
    /\ UNCHANGED <<file, setupVars, tail_state, start_pos, mounted, msgs, bufferVars,
                   readHistory, layoutVars, extraVars>>

\* if not hasattr(self, "tail") or not self.tail: return
poll_check(s, w) ==
    /\ wpc[s][w] = "check"
    /\ IF tail_ready(tail_state[s])
       THEN /\ wpc' = [wpc EXCEPT ![s][w] = "read"]
            /\ new_lines' = [new_lines EXCEPT ![s][w] = <<>>]
       ELSE /\ wpc' = [wpc EXCEPT ![s][w] = "idle"]
            /\ UNCHANGED new_lines
    /\ UNCHANGED <<file, setupVars, tailVars, mounted, msgs, bufferVars,
                   readHistory, layoutVars, extraVars>>

\* post_message(LogUpdated(batch)): queued for the widget while it is mounted
post_message(queue, batch, isMounted) ==
    IF isMounted THEN Append(queue, batch) ELSE queue

\* one readline of the loop of get_new_lines; when it returns the empty
\* string the loop ends, get_new_lines returns and poll_lines posts the list
\* if it is not empty.  readline on a closed handle raises ValueError, which
\* ends the worker.  Each readline is one step: two workers in the loop
\* interleave whole readline calls.
poll_read(s, w) ==
    /\ wpc[s][w] = "read"
    /\ IF tail_state[s] = "closed"
       THEN /\ wpc' = [wpc EXCEPT ![s][w] = "idle"]
            /\ new_lines' = [new_lines EXCEPT ![s][w] = <<>>]
            /\ closed_read' = [closed_read EXCEPT ![s] = TRUE]
            /\ UNCHANGED <<tail_pos, msgs, raw_read, returned>>
       ELSE LET l == ReadLine(file[s], tail_pos[s])
            IN  IF l # <<>>
                THEN /\ new_lines' = [new_lines EXCEPT ![s][w] = Append(@, tidy_log_line(l))]
                     /\ tail_pos' = [tail_pos EXCEPT ![s] = @ + Len(l)]
                     /\ raw_read' = [raw_read EXCEPT ![s] = Append(@, l)]
                     /\ UNCHANGED <<wpc, msgs, returned, closed_read>>
                ELSE /\ wpc' = [wpc EXCEPT ![s][w] = "idle"]
                     /\ new_lines' = [new_lines EXCEPT ![s][w] = <<>>]
                     /\ returned' = [returned EXCEPT ![s] = @ \o new_lines[s][w]]
                     /\ msgs' = [msgs EXCEPT ![s] =
                                   IF new_lines[s][w] # <<>>
                                   THEN post_message(@, new_lines[s][w], mounted[s])
                                   ELSE @]
                     /\ UNCHANGED <<tail_pos, raw_read, closed_read>>
    /\ UNCHANGED <<file, setupVars, tail_state, start_pos, mounted, bufferVars,
                   layoutVars, extraVars>>

\* ------------------------------------------------------------------------
\* The render thread: message handler, watcher, unmount
\* ------------------------------------------------------------------------
\* (variant: the watermark set one past the end)
watch_lines_past_end(self_lines, self_lines_read) ==
    IF self_lines # <<>> /\ self_lines_read < Len(self_lines)
    THEN [written |-> [k \in 1..(Len(self_lines) - self_lines_read) |->
                          self_lines[self_lines_read + k]],
          lines_read |-> Len(self_lines) + 1]
    ELSE [written |-> <<>>, lines_read |-> self_lines_read]

\* (variant: the watermark not advanced)
watch_lines_no_advance(self_lines, self_lines_read) ==
    IF self_lines # <<>> /\ self_lines_read < Len(self_lines)
    THEN [written |-> [k \in 1..(Len(self_lines) - self_lines_read) |->
                          self_lines[self_lines_read + k]],
          lines_read |-> self_lines_read]
    ELSE [written |-> <<>>, lines_read |-> self_lines_read]

\* watch_lines: what is written to the RichLog, and the new lines_read
watch_lines(self_lines, self_lines_read) ==
    IF self_lines # <<>> /\ self_lines_read < Len(self_lines)
    THEN [written |-> [k \in 1..(Len(self_lines) - self_lines_read) |->
                          self_lines[self_lines_read + k]],
          lines_read |-> Len(self_lines)]
    ELSE [written |-> <<>>, lines_read |-> self_lines_read]

\* (variant: the batch added in place to the list object that is the class
\* default, which every instance that has not been assigned yet still holds)
on_followed_log_log_updated_shared(s) ==
    /\ mounted[s]
    /\ msgs[s] # <<>>
    /\ LET newLines == lines[s] \o Head(msgs[s])
           w == watch_lines(newLines, lines_read[s])
       IN  /\ lines' = [t \in Sources |->
                           IF t = s THEN newLines
                           ELSE IF lines[s] = <<>> /\ lines[t] = <<>> THEN Head(msgs[s])
                           ELSE lines[t]]
           /\ lines_read' = [lines_read EXCEPT ![s] = w.lines_read]
           /\ log' = [log EXCEPT ![s] = @ \o w.written]
    /\ msgs' = [msgs EXCEPT ![s] = Tail(@)]
    /\ UNCHANGED <<file, setupVars, tailVars, mounted, workerVars, readHistory,
                   layoutVars, extraVars>>

\* self.lines = self.lines + ev.new_log_lines, then the watcher of the
\* reactive runs
on_followed_log_log_updated(s) ==
    /\ mounted[s]
    /\ msgs[s] # <<>>
    /\ LET newLines == lines[s] \o Head(msgs[s])
           w == watch_lines(newLines, lines_read[s])
       IN  /\ lines' = [lines EXCEPT ![s] = newLines]
           /\ lines_read' = [lines_read EXCEPT ![s] = w.lines_read]
           /\ log' = [log EXCEPT ![s] = @ \o w.written]
    /\ msgs' = [msgs EXCEPT ![s] = Tail(@)]
    /\ UNCHANGED <<file, setupVars, tailVars, mounted, workerVars, readHistory,
                   layoutVars, extraVars>>

\* the widget is removed (the application quits): its timer is stopped and
\* on_unmount closes self.tail if it is set; reading self.tail raises
\* AttributeError while setup has not assigned it
on_unmount(s) ==
    /\ mounted[s]
    /\ mounted' = [mounted EXCEPT ![s] = FALSE]
    /\ tail_state' = [tail_state EXCEPT ![s] = IF @ = "open" THEN "closed" ELSE @]
    /\ unmount_error' = [unmount_error EXCEPT ![s] = (tail_state[s] = "unset")]
    /\ UNCHANGED <<file, setupVars, tail_pos, start_pos, workerVars, msgs, bufferVars,
                   readHistory, layoutVars, appVars, tidyVars>>

\* the exiting application removes its widgets
app_exit_unmount(s) ==
    /\ exiting
    /\ on_unmount(s)

\* the widths a panel is resized between
PanelWidths == {40, 80}

\* (variant: the RichLog not cleared first)
resize_log_no_clear(old_log, self_lines) == old_log \o self_lines

\* what the RichLog holds after on_resize: cleared, then every line of
\* self.lines written again
resize_log(old_log, self_lines) == self_lines

\* the panel gets a new width: on_resize
on_resize(s, new_width) ==
    /\ mounted[s]
    /\ new_width # width[s]
    /\ width' = [width EXCEPT ![s] = new_width]
    /\ log' = [log EXCEPT ![s] = resize_log(@, lines[s])]
    /\ UNCHANGED <<file, setupVars, tailVars, mounted, workerVars, msgs, lines,
                   lines_read, readHistory, layoutVars, openable, exiting, tidyVars,
                   unmount_error>>

\* ------------------------------------------------------------------------
\* LogFollowApp.on_key
\* ------------------------------------------------------------------------
\* str.isdigit and int of a key name
isdigit(key) == key \in Digits

int(key) ==
    CASE key = "0" -> 0 [] key = "1" -> 1 [] key = "2" -> 2 [] key = "3" -> 3
      [] key = "4" -> 4 [] key = "5" -> 5 [] key = "6" -> 6 [] key = "7" -> 7
      [] key = "8" -> 8 [] key = "9" -> 9

\* (variant: the range test of the elif left out)
on_key_unguarded(disp, key) ==
    IF ~isdigit(key)
    THEN disp
    ELSE LET i == int(key)
         IN  IF i = 0
             THEN [c \in Sources |-> TRUE]
             ELSE [c \in Sources |-> (i - 1 = c - 1)]

\* (variant: the child compared with i instead of i - 1)
on_key_off_by_one(disp, key) ==
    IF ~isdigit(key)
    THEN disp
    ELSE LET i == int(key)
         IN  IF i = 0
             THEN [c \in Sources |-> TRUE]
             ELSE IF i <= NumSources
                  THEN [c \in Sources |-> (i = c - 1)]
                  ELSE disp

\* (variant: a digit out of range handled like 0)
on_key_resplit(disp, key) ==
    IF ~isdigit(key)
    THEN disp
    ELSE LET i == int(key)
         IN  IF i = 0 \/ i > NumSources
             THEN [c \in Sources |-> TRUE]
             ELSE [c \in Sources |-> (i - 1 = c - 1)]

\* the display flags after on_key(key); children are the FollowedLog widgets
\* in order, child number j (from 0) being source j + 1
on_key(disp, key) ==
    IF ~isdigit(key)
    THEN disp
    ELSE LET i == int(key)
         IN  IF i = 0
             THEN [c \in Sources |-> TRUE]
             ELSE IF i <= NumSources
                  THEN [c \in Sources |-> (i - 1 = c - 1)]
                  ELSE disp

OnKey(key) ==
    /\ Len(keys) < MaxKeys
    /\ display' = on_key(display, key)
    /\ keys' = Append(keys, key)
    /\ UNCHANGED <<file, setupVars, tailVars, mounted, workerVars, msgs, bufferVars,
                   readHistory, extraVars>>

\* ------------------------------------------------------------------------
\* Specifications
\* ------------------------------------------------------------------------
\* no line has been handed to tidy_log_line
NoLine == [kind |-> "none"]

\* ------------------------------------------------------------------------
\* the state after the widgets are mounted: on_mount has started the setup
\* worker and the timer of every source; the files exist and are empty
Init ==
    /\ file = [s \in Sources |-> <<>>]
    /\ setup_pc = [s \in Sources |-> "scan"]
    /\ scan_pos = [s \in Sources |-> 0]
    /\ line_end_positions = [s \in Sources |-> <<>>]
    /\ tail_state = [s \in Sources |-> "unset"]
    /\ tail_pos = [s \in Sources |-> 0]
    /\ mounted = [s \in Sources |-> TRUE]
    /\ wpc = [s \in Sources |-> [w \in Workers |-> "idle"]]
    /\ new_lines = [s \in Sources |-> [w \in Workers |-> <<>>]]
    /\ msgs = [s \in Sources |-> <<>>]
    /\ lines = [s \in Sources |-> <<>>]
    /\ lines_read = [s \in Sources |-> 0]
    /\ log = [s \in Sources |-> <<>>]
    /\ display = [s \in Sources |-> TRUE]
    /\ start_pos = [s \in Sources |-> -1]
    /\ raw_read = [s \in Sources |-> <<>>]
    /\ returned = [s \in Sources |-> <<>>]
    /\ closed_read = [s \in Sources |-> FALSE]
    /\ keys = <<>>
    /\ width = [s \in Sources |-> 80]
    /\ openable = [s \in Sources |-> TRUE]
    /\ exiting = FALSE
    /\ unmount_error = [s \in Sources |-> FALSE]
    /\ tidy_in = NoLine
    /\ tidy_out = NoLine

\* the sources whose workers are scheduled in the polling specifications;
\* the other sources stay as mounted (the sources run the same code on
\* disjoint fields)
Scheduled == {1}

\* the timer tick when no earlier poll of the source is still running
SeqTick(s) ==
    /\ \A w \in Workers : wpc[s][w] = "idle"
    /\ Tick(s)

\* any writes, polls started on every tick, teardown at any time
Next ==
    \E s \in Scheduled :
        \/ \E chunk \in Chunks : Write(s, chunk)
        \/ setup_scan(s)
        \/ setup_open(s)
        \/ Tick(s)
        \/ \E w \in Workers : poll_check(s, w)
        \/ \E w \in Workers : poll_read(s, w)
        \/ on_followed_log_log_updated(s)
        \/ on_unmount(s)

Spec == Init /\ [][Next]_vars

\* any writes, one poll at a time
NextSeq ==
    \E s \in Scheduled :
        \/ \E chunk \in Chunks : Write(s, chunk)
        \/ setup_scan(s)
        \/ setup_open(s)
        \/ SeqTick(s)
        \/ \E w \in Workers : poll_check(s, w)
        \/ \E w \in Workers : poll_read(s, w)
        \/ on_followed_log_log_updated(s)
        \/ on_unmount(s)

SpecSeq == Init /\ [][NextSeq]_vars

\* whole-line writes, polls started on every tick
NextWhole ==
    \E s \in Scheduled :
        \/ \E chunk \in WholeChunks : Write(s, chunk)
        \/ setup_scan(s)
        \/ setup_open(s)
        \/ Tick(s)
        \/ \E w \in Workers : poll_check(s, w)
        \/ \E w \in Workers : poll_read(s, w)
        \/ on_followed_log_log_updated(s)
        \/ on_unmount(s)

SpecWhole == Init /\ [][NextWhole]_vars

\* catch-up on a file of n whole lines that is not written afterwards, one
\* poll at a time; line number i of the file is the three digits of i
DigitChar(d) ==
    CASE d = 0 -> "0" [] d = 1 -> "1" [] d = 2 -> "2" [] d = 3 -> "3" [] d = 4 -> "4"
      [] d = 5 -> "5" [] d = 6 -> "6" [] d = 7 -> "7" [] d = 8 -> "8" [] d = 9 -> "9"

NumberedLine(i) ==
    <<DigitChar((i \div 100) % 10), DigitChar((i \div 10) % 10), DigitChar(i % 10), NL>>

NumberedFile(n) == [k \in 1..(4 * n) |-> NumberedLine(((k - 1) \div 4) + 1)[((k - 1) % 4) + 1]]

InitCatchup ==
    /\ \E n \in 0..MaxCatchupLines :
           file = [s \in Sources |-> IF s \in Scheduled THEN NumberedFile(n) ELSE <<>>]
    /\ setup_pc = [s \in Sources |-> "scan"]
    /\ scan_pos = [s \in Sources |-> 0]
    /\ line_end_positions = [s \in Sources |-> <<>>]
    /\ tail_state = [s \in Sources |-> "unset"]
    /\ tail_pos = [s \in Sources |-> 0]
    /\ mounted = [s \in Sources |-> TRUE]
    /\ wpc = [s \in Sources |-> [w \in Workers |-> "idle"]]
    /\ new_lines = [s \in Sources |-> [w \in Workers |-> <<>>]]
    /\ msgs = [s \in Sources |-> <<>>]
    /\ lines = [s \in Sources |-> <<>>]
    /\ lines_read = [s \in Sources |-> 0]
    /\ log = [s \in Sources |-> <<>>]
    /\ display = [s \in Sources |-> TRUE]
    /\ start_pos = [s \in Sources |-> -1]
    /\ raw_read = [s \in Sources |-> <<>>]
    /\ returned = [s \in Sources |-> <<>>]
    /\ closed_read = [s \in Sources |-> FALSE]
    /\ keys = <<>>
    /\ width = [s \in Sources |-> 80]
    /\ openable = [s \in Sources |-> TRUE]
    /\ exiting = FALSE
    /\ unmount_error = [s \in Sources |-> FALSE]
    /\ tidy_in = NoLine
    /\ tidy_out = NoLine

NextCatchup ==
    \E s \in Scheduled :
        \/ setup_scan(s)
        \/ setup_open(s)
        \/ SeqTick(s)
        \/ \E w \in Workers : poll_check(s, w)
        \/ \E w \in Workers : poll_read(s, w)
        \/ on_followed_log_log_updated(s)

SpecCatchup == InitCatchup /\ [][NextCatchup]_vars

\* the render thread at work: one poll at a time, any writes, deliveries,
\* resizes and teardown
NextRender ==
    \E s \in Scheduled :
        \/ \E chunk \in Chunks : Write(s, chunk)
        \/ setup_scan(s)
        \/ setup_open(s)
        \/ SeqTick(s)
        \/ \E w \in Workers : poll_check(s, w)
        \/ \E w \in Workers : poll_read(s, w)
        \/ on_followed_log_log_updated(s)
        \/ \E new_width \in PanelWidths : on_resize(s, new_width)
        \/ on_unmount(s)

SpecRender == Init /\ [][NextRender]_vars

\* two sources at work, either of whose files may fail to open; whole-line
\* writes within a common budget, one poll of a source at a time, and the
\* widgets removed only by the exit of the application
TwoSources == {1, 2}

WriteShared(s, chunk) ==
    /\ Len(file[1]) + Len(file[2]) + Len(chunk) <= MaxFileLen
    /\ Write(s, chunk)

InitTwo ==
    /\ file = [s \in Sources |-> <<>>]
    /\ setup_pc = [s \in Sources |-> "scan"]
    /\ scan_pos = [s \in Sources |-> 0]
    /\ line_end_positions = [s \in Sources |-> <<>>]
    /\ tail_state = [s \in Sources |-> "unset"]
    /\ tail_pos = [s \in Sources |-> 0]
    /\ mounted = [s \in Sources |-> TRUE]
    /\ wpc = [s \in Sources |-> [w \in Workers |-> "idle"]]
    /\ new_lines = [s \in Sources |-> [w \in Workers |-> <<>>]]
    /\ msgs = [s \in Sources |-> <<>>]
    /\ lines = [s \in Sources |-> <<>>]
    /\ lines_read = [s \in Sources |-> 0]
    /\ log = [s \in Sources |-> <<>>]
    /\ display = [s \in Sources |-> TRUE]
    /\ start_pos = [s \in Sources |-> -1]
    /\ raw_read = [s \in Sources |-> <<>>]
    /\ returned = [s \in Sources |-> <<>>]
    /\ closed_read = [s \in Sources |-> FALSE]
    /\ keys = <<>>
    /\ width = [s \in Sources |-> 80]
    /\ \E missing \in SUBSET TwoSources : openable = [s \in Sources |-> s \notin missing]
    /\ exiting = FALSE
    /\ unmount_error = [s \in Sources |-> FALSE]
    /\ tidy_in = NoLine
    /\ tidy_out = NoLine

NextTwo ==
    \E s \in TwoSources :
        \/ \E chunk \in WholeChunks : WriteShared(s, chunk)
        \/ setup_scan(s)
        \/ setup_open(s)
        \/ setup_fail(s)
        \/ SeqTick(s)
        \/ \E w \in Workers : poll_check(s, w)
        \/ \E w \in Workers : poll_read(s, w)
        \/ on_followed_log_log_updated(s)
        \/ app_exit_unmount(s)

SpecTwo == InitTwo /\ [][NextTwo]_vars

\* tidy_log_line applied to one line: a record put together from its
\* parts, with or without its newline, or a line that is no record
RecordDates == {[year |-> <<"2", "0", "2", "4">>, month |-> <<"0", "5">>, day |-> <<"0", "1">>],
                [year |-> <<"1", "9", "9", "9">>, month |-> <<"1", "2">>, day |-> <<"3", "1">>]}

RecordTimes == {[time |-> <<"1", "0", ":", "0", "0", ":", "0", "0">>, ms |-> <<"0", "0", "0">>],
                [time |-> <<"2", "3", ":", "5", "9", ":", "5", "9">>, ms |-> <<"1", "2", "3">>]}

RecordThreads == {<<"7">>, <<"4", "2">>, NetWorker}

RecordLevels == {<<"I", "N", "F", "O">>, <<"E", "R", "R", "O", "R">>}

\* logger paths, by their segments
RecordPaths == {<<<<"a">>, <<"b">>, <<"W", "o", "r", "k", "e", "r">>>>, <<<<"X">>, <<"Y", "9">>>>}

\* message texts, some ending in the letter n or in a backslash
RecordMessages == {<<"s", "t", "a", "r", "t", "e", "d">>, <<"b", "e", "g", "i", "n">>, <<"a", "\\">>, <<"n">>, <<"o", "k">>}

LineEnds == {<<NL>>, <<>>}

PlainLines == {<<>>, <<NL>>, <<"a", "b", "c", NL>>, <<"2", "0", "2", "4", "-", "0", "5", "-", "0", "1", " ", "1", "0", ":", "0", "0", ":", "0", "0", ",", "0", "0", "0", " ", "[", "x", "]", " ", "I", "N", "F", "O", " ", "a", ".", "b", " ", "-", " ", "m", NL>>}

TidyInputs ==
    {[kind |-> "record", date |-> d, time |-> t, thread |-> th, level |-> lv,
      path |-> pa, message |-> me, eol |-> e] :
        d \in RecordDates, t \in RecordTimes, th \in RecordThreads,
        lv \in RecordLevels, pa \in RecordPaths, me \in RecordMessages,
        e \in LineEnds}
    \cup {[kind |-> "plain", text |-> x] : x \in PlainLines}

\* the segments of a logger path joined by dots
RECURSIVE Dotted(_)
Dotted(segments) ==
    IF Len(segments) = 1
    THEN segments[1]
    ELSE segments[1] \o <<".">> \o Dotted(Tail(segments))

\* the text of an input line
LineText(in) ==
    IF in.kind = "plain"
    THEN in.text
    ELSE in.date.year \o <<"-">> \o in.date.month \o <<"-">> \o in.date.day
         \o <<" ">> \o in.time.time \o <<",">> \o in.time.ms
         \o <<" ", "[">> \o in.thread \o <<"]", " ">> \o in.level
         \o <<" ">> \o Dotted(in.path) \o <<" ", "-", " ">> \o in.message \o in.eol

InitTidy ==
    /\ file = [s \in Sources |-> <<>>]
    /\ setup_pc = [s \in Sources |-> "scan"]
    /\ scan_pos = [s \in Sources |-> 0]
    /\ line_end_positions = [s \in Sources |-> <<>>]
    /\ tail_state = [s \in Sources |-> "unset"]
    /\ tail_pos = [s \in Sources |-> 0]
    /\ mounted = [s \in Sources |-> TRUE]
    /\ wpc = [s \in Sources |-> [w \in Workers |-> "idle"]]
    /\ new_lines = [s \in Sources |-> [w \in Workers |-> <<>>]]
    /\ msgs = [s \in Sources |-> <<>>]
    /\ lines = [s \in Sources |-> <<>>]
    /\ lines_read = [s \in Sources |-> 0]
    /\ log = [s \in Sources |-> <<>>]
    /\ display = [s \in Sources |-> TRUE]
    /\ start_pos = [s \in Sources |-> -1]
    /\ raw_read = [s \in Sources |-> <<>>]
    /\ returned = [s \in Sources |-> <<>>]
    /\ closed_read = [s \in Sources |-> FALSE]
    /\ keys = <<>>
    /\ width = [s \in Sources |-> 80]
    /\ openable = [s \in Sources |-> TRUE]
    /\ exiting = FALSE
    /\ unmount_error = [s \in Sources |-> FALSE]
    /\ tidy_in \in TidyInputs
    /\ tidy_out = NoLine

\* the call tidy_log_line(line)
Tidy ==
    /\ tidy_in # NoLine
    /\ tidy_out = NoLine
    /\ tidy_out' = [kind |-> "line", text |-> tidy_log_line(LineText(tidy_in))]
    /\ UNCHANGED <<file, setupVars, tailVars, mounted, workerVars, msgs, bufferVars,
                   readHistory, layoutVars, appVars, tidy_in, unmount_error>>

NextTidy == Tidy

SpecTidy == InitTidy /\ [][NextTidy]_vars

\* the source at work and never torn down, under fair scheduling of the
\* setup worker, the timer, the poll workers and the message handler; the
\* writer may stop at any time
NextLive ==
    \E s \in Scheduled :
        \/ \E chunk \in Chunks : Write(s, chunk)
        \/ setup_scan(s)
        \/ setup_open(s)
        \/ Tick(s)
        \/ \E w \in Workers : poll_check(s, w)
        \/ \E w \in Workers : poll_read(s, w)
        \/ on_followed_log_log_updated(s)

Fairness ==
    \A s \in Scheduled :
        /\ WF_vars(setup_scan(s))
        /\ WF_vars(setup_open(s))
        /\ WF_vars(Tick(s))
        /\ \A w \in Workers : WF_vars(poll_check(s, w))
        /\ \A w \in Workers : WF_vars(poll_read(s, w))
        /\ WF_vars(on_followed_log_log_updated(s))

SpecLive == Init /\ [][NextLive]_vars /\ Fairness

\* the layout alone: key events
NextLayout == \E key \in Keys : OnKey(key)

SpecLayout == Init /\ [][NextLayout]_vars

\* ------------------------------------------------------------------------
\* Properties
\* ------------------------------------------------------------------------
IsPrefix(a, b) == Len(a) <= Len(b) /\ \A k \in 1..Len(a) : a[k] = b[k]

\* the newline-terminated lines of content from offset pos on, in file order
CompleteLines(content, pos) ==
    LET IsEnd(i) == i > pos /\ content[i] = NL
        ends == SelectSeq([i \in 1..Len(content) |-> i], IsEnd)
    IN  [k \in 1..Len(ends) |->
            Slice(content, (IF k = 1 THEN pos ELSE ends[k - 1]) + 1, ends[k])]

Formatted(ls) == [k \in 1..Len(ls) |-> tidy_log_line(ls[k])]

\* the formatted lines of the file of s from its catch-up position on
Expected(s) ==
    IF start_pos[s] < 0 THEN <<>> ELSE Formatted(CompleteLines(file[s], start_pos[s]))

\* C1: a poll never reads a partial line: every string a readline of
\* get_new_lines has consumed ends with the newline of its line
C1_NoPartialLine ==
    \A s \in Sources : \A k \in 1..Len(raw_read[s]) :
        raw_read[s][k][Len(raw_read[s][k])] = NL

\* C2: with one poll at a time, the concatenation of the lists returned by
\* the polls of a source is the sequence of the lines of its file from the
\* catch-up position on, nothing repeated, skipped or out of order
C2_ReturnedIsFileContent ==
    \A s \in Sources : IsPrefix(returned[s], Expected(s))

\* the window of a file that catch-up leaves for the first poll: its last
\* CATCHUP_LINES lines, or all of them when there are no more than that
Window(s) ==
    LET all == CompleteLines(file[s], 0)
        n == Len(all)
    IN  Formatted(IF n > CATCHUP_LINES
                  THEN SubSeq(all, n - CATCHUP_LINES + 1, n)
                  ELSE all)

\* C3: catch-up on a file of n lines that is not written: the first poll
\* delivers exactly the last CATCHUP_LINES lines when n > CATCHUP_LINES and
\* all n lines otherwise (the only message ever posted, and the buffer once
\* it is handled, is that window; a poll that has run on the open handle has
\* returned it)
C3_CatchupWindow ==
    \A s \in Sources :
        /\ \A k \in 1..Len(msgs[s]) : msgs[s][k] = Window(s)
        /\ lines[s] \in {<<>>, Window(s)}
        /\ (tail_state[s] = "open" /\ \A w \in Workers : wpc[s][w] = "idle")
             => \/ tail_pos[s] = Len(file[s]) /\ returned[s] = Window(s)
                \/ tail_pos[s] = start_pos[s] /\ returned[s] = <<>>

C3_Witness ==
    /\ Len(CompleteLines(file[1], 0)) = CATCHUP_LINES + 1
    /\ Len(lines[1]) = CATCHUP_LINES
    /\ lines[1][1] = NumberedLine(2)
    /\ lines[1][CATCHUP_LINES] = NumberedLine(CATCHUP_LINES + 1)

\* C4: at most one poll_lines worker of a source is reading its tail handle
\* at any time
C4_SinglePoller ==
    \A s \in Sources : Cardinality({w \in Workers : wpc[s][w] = "read"}) <= 1

\* C5: the buffer self.lines of a source holds lines of its file in file
\* order, none duplicated or reordered
C5_BufferInFileOrder ==
    \A s \in Sources : IsPrefix(lines[s], Expected(s))

\* C6: while self.tail is not set (catch-up has not completed) no poll reads
\* the file, delivers a line, posts a message or raises, and the buffer is
\* empty
C6_NotReadyDeliversNothing ==
    \A s \in Sources :
        tail_state[s] = "unset" =>
            /\ \A w \in Workers : wpc[s][w] \in {"idle", "check"}
            /\ raw_read[s] = <<>>
            /\ returned[s] = <<>>
            /\ ~closed_read[s]
            /\ msgs[s] = <<>>
            /\ lines[s] = <<>>
            /\ log[s] = <<>>

\* a poll ran to its end while the file had content and catch-up was still
\* scanning (worker 2 is started only while worker 1 runs)
C6_Witness ==
    /\ tail_state[1] = "unset"
    /\ file[1] # <<>>
    /\ line_end_positions[1] # <<>>
    /\ wpc[1][1] = "idle"
    /\ wpc[1][2] = "check"

\* C7: when the tail handle of a source is closed no poll_lines worker of
\* it is inside or about to enter get_new_lines, and none reads the closed
\* handle
C7_NoReadOnClosedHandle ==
    \A s \in Sources :
        /\ tail_state[s] = "closed" => \A w \in Workers : wpc[s][w] = "idle"
        /\ ~closed_read[s]

\* C8: either every source is visible or exactly one is
C8_SplitOrFocused ==
    \/ \A s \in Sources : display[s]
    \/ Cardinality({s \in Sources : display[s]}) = 1

C8_Witness ==
    /\ keys = <<"1", "3">>
    /\ display = [s \in Sources |-> s = 3]

\* C9: the layout after a digit command depends on the command alone: after
\* 0 every source is visible, after d in 1..source_count exactly source
\* index d-1 (the d-th source) is
C9_CommandDecidesLayout ==
    keys # <<>> =>
        LET key == keys[Len(keys)]
        IN  isdigit(key) =>
                /\ int(key) = 0 => \A s \in Sources : display[s]
                /\ int(key) \in 1..NumSources =>
                       \A s \in Sources : display[s] <=> (s - 1 = int(key) - 1)

C9_Witness ==
    /\ keys = <<"2", "0">>
    /\ \A s \in Sources : display[s]

\* C10: a digit command d > source_count leaves every display flag as it was
C10_OutOfRangeIgnored ==
    [][\A key \in Keys :
          (keys' = Append(keys, key) /\ isdigit(key) /\ int(key) > NumSources)
              => display' = display]_vars

C10_Witness ==
    /\ keys = <<"2", "9">>
    /\ display = [s \in Sources |-> s = 2]

\* a LogUpdated message of s is handled in this step
Delivered(s) == msgs[s] # <<>> /\ msgs'[s] = Tail(msgs[s]) /\ lines'[s] # lines[s]

\* C11: lines_read never exceeds len(lines), and lines only grows at its
\* end: every new value has the previous one as a prefix
C11_WatermarkAndAppendOnly ==
    /\ [](\A s \in Sources : lines_read[s] <= Len(lines[s]))
    /\ [][\A s \in Sources : IsPrefix(lines[s], lines'[s])]_vars

\* two batches have been delivered and the panel resized in between or after
C11_Witness ==
    /\ Len(lines[1]) = 2
    /\ lines_read[1] = 2
    /\ width[1] = 40
    /\ msgs[1] = <<>>

\* C12: a paint writes exactly the lines from lines_read to the end and
\* sets lines_read to len(lines): the delivery of a batch writes that batch
\* and nothing else, and a paint in any reachable state (no append since the
\* last one) writes nothing
C12_PaintOnce ==
    /\ [](\A s \in Sources :
             watch_lines(lines[s], lines_read[s]) =
                 [written |-> <<>>, lines_read |-> Len(lines[s])])
    /\ [][\A s \in Sources :
             Delivered(s) =>
                 /\ log'[s] = log[s] \o Head(msgs[s])
                 /\ lines_read'[s] = Len(lines'[s])]_vars

\* a second batch has been painted after the first
C12_Witness ==
    /\ lines[1] = <<<<"a">>, <<NL>>>>
    /\ log[1] = lines[1]
    /\ lines_read[1] = 2

\* C13: the RichLog holds exactly the buffer, in order, each line once, in
\* every state; a resize leaves it holding exactly the buffer
C13_PaintedIsBuffer ==
    /\ [](\A s \in Sources : log[s] = lines[s])
    /\ [][\A s \in Sources : width'[s] # width[s] => log'[s] = lines[s]]_vars

\* the panel has been resized and holds the two lines of the buffer
C13_Witness ==
    /\ width[1] = 40
    /\ lines[1] = <<<<NL>>, <<"b", NL>>>>
    /\ log[1] = lines[1]

\* C14: a source whose file cannot be opened stays not ready with an empty
\* buffer, and the other sources are not stopped by its failure: they stay
\* mounted with their handle open
C14_FailureContained ==
    \A s \in Sources :
        setup_pc[s] = "failed" =>
            /\ tail_state[s] = "unset"
            /\ msgs[s] = <<>>
            /\ lines[s] = <<>>
            /\ \A t \in Sources \ {s} :
                   openable[t] => mounted[t] /\ tail_state[t] # "closed"

\* C19: handling a LogUpdated message of one source leaves lines,
\* lines_read and the RichLog of every other source unchanged
C19_SourcesIndependent ==
    [][\A s \in Sources :
          Delivered(s) =>
              \A t \in Sources \ {s} :
                  /\ lines'[t] = lines[t]
                  /\ lines_read'[t] = lines_read[t]
                  /\ log'[t] = log[t]]_vars

\* both sources have had a batch delivered, each its own
C19_Witness ==
    /\ lines[1] = <<<<"b", NL>>>>
    /\ lines[2] = <<<<NL>>>>
    /\ lines_read[1] = 1
    /\ lines_read[2] = 1
    /\ log[2] = lines[2]

IsSuffix(a, b) ==
    /\ Len(a) <= Len(b)
    /\ \A k \in 1..Len(a) : a[k] = b[Len(b) - Len(a) + k]

\* a record has been handed to tidy_log_line and the result is there
TidiedRecord == tidy_in.kind = "record" /\ tidy_out.kind = "line"

\* C15: the output for a record begins with its day, '/' and its month and
\* ends with its message text, every character of it
C15_DayMonthAndMessageKept ==
    TidiedRecord =>
        /\ IsPrefix(tidy_in.date.day \o <<"/">> \o tidy_in.date.month, tidy_out.text)
        /\ IsSuffix(tidy_in.message, tidy_out.text)

\* "<day>/<month> <time> <loggerClass> <level> - <message>" of a record for
\* the given text of <time>
Layout(in, time) ==
    in.date.day \o <<"/">> \o in.date.month \o <<" ">> \o time \o <<" ">>
    \o in.path[Len(in.path)] \o <<" ">> \o in.level \o <<" ", "-", " ">> \o in.message

\* C16 as claimed: the output for a record is the layout with the time
\* followed by its millisecond part
C16_LayoutWithMilliseconds ==
    TidiedRecord =>
        tidy_out.text = Layout(tidy_in, tidy_in.time.time \o <<",">> \o tidy_in.time.ms)

\* C16 as amended: the output for a record is the layout with the time
\* without its millisecond part, less the characters n and backslash at its
\* end
C16_LayoutWithoutMilliseconds ==
    TidiedRecord =>
        LET full == Layout(tidy_in, tidy_in.time.time)
            out == tidy_out.text
        IN  /\ IsPrefix(out, full)
            /\ \A k \in (Len(out) + 1)..Len(full) : full[k] \in StripChars
            /\ out # <<>> => out[Len(out)] \notin StripChars

\* the record  2024-05-01 10:00:00,000 [7] INFO a.b.Worker - started
C16_Witness ==
    /\ TidiedRecord
    /\ LineText(tidy_in) = <<"2", "0", "2", "4", "-", "0", "5", "-", "0", "1", " ", "1", "0", ":", "0", "0", ":", "0", "0", ",", "0", "0", "0", " ", "[", "7", "]", " ", "I", "N", "F", "O", " ", "a", ".", "b", ".", "W", "o", "r", "k", "e", "r", " ", "-", " ", "s", "t", "a", "r", "t", "e", "d">> \o <<NL>>
    /\ tidy_out.text = <<"0", "1", "/", "0", "5", " ", "1", "0", ":", "0", "0", ":", "0", "0", " ", "W", "o", "r", "k", "e", "r", " ", "I", "N", "F", "O", " ", "-", " ", "s", "t", "a", "r", "t", "e", "d">>

\* C17: once self.tail is set its read offset never decreases: a step
\* leaves it unchanged or moves it forward past the line a readline has
\* returned; the handle is published already positioned, at the offset
\* setup has sought
C17_OffsetMonotonic ==
    /\ [](\A s \in Sources :
             tail_state[s] # "unset" => start_pos[s] >= 0 /\ tail_pos[s] >= start_pos[s])
    /\ [][\A s \in Sources :
             /\ (tail_state[s] = "unset" /\ tail_state'[s] # "unset")
                    => tail_pos'[s] = seek_target(line_end_positions[s])
             /\ tail_state[s] # "unset" =>
                    \/ tail_pos'[s] = tail_pos[s]
                    \/ /\ Len(raw_read'[s]) = Len(raw_read[s]) + 1
                       /\ raw_read'[s][Len(raw_read'[s])] # <<>>
                       /\ tail_pos'[s] =
                              tail_pos[s] + Len(raw_read'[s][Len(raw_read'[s])])]_vars

\* three polls' worth of reads have moved the offset to the end of the file
C17_Witness ==
    /\ tail_state[1] = "open"
    /\ tail_pos[1] = 3
    /\ Len(raw_read[1]) = 3
    /\ returned[1] = raw_read[1]

\* every complete line of the file of s from the catch-up position on is in
\* the buffer and painted
Buffered(s) ==
    \A k \in 1..Len(Expected(s)) :
        \E j \in 1..Len(lines[s]) :
            /\ lines[s][j] = Expected(s)[k]
            /\ j <= Len(log[s])
            /\ log[s][j] = lines[s][j]

\* C18: catch-up eventually completes, and every complete line appended to
\* the file from the catch-up position on is eventually in the buffer and
\* painted, for good once the writer has stopped
C18_EventuallyDelivered ==
    \A s \in Scheduled :
        /\ <>(tail_state[s] = "open")
        /\ <>[](tail_state[s] = "open" /\ Buffered(s))

\* C20: on_unmount never raises and leaves no read handle of the source
\* open
C20_TeardownSafe ==
    \A s \in Sources :
        /\ ~unmount_error[s]
        /\ ~mounted[s] => tail_state[s] # "open"

====
